---- MODULE Spec2Model ----
(***************************************************************************)
(* Model of the LL(1) / SLR(1) grammar analyser:                           *)
(*   main.py          GrammarParser  (grammar reader and command loop)     *)
(*   first_follow.py  FirstFollowCalculator                                *)
(*   ll1_parser.py    LL1Parser                                            *)
(*   slr1_parser.py   SLR1Parser                                           *)
(* One process: read_grammar, compute_first_sets, compute_follow_sets,     *)
(* is_ll1, is_slr1, then the command loop (T, B, Q and input strings).     *)
(***************************************************************************)
EXTENDS Integers, Sequences, FiniteSets, TLC

\* ------------------------------------------------------------------------
\* Symbols
\* ------------------------------------------------------------------------
epsilon == "e"
end_marker == "$"
start_symbol == "S"
augmented_start == "S'"

\* Bounds of the model.
MaxProds == 3
MaxInput == 2

\* Symbols the grammars of the model are written with: str.isupper() holds of
\* the first, not of the second.
UpperSymbols == {"S", "A"}
LowerSymbols == {"a", "b"}
SymbolUniverse == UpperSymbols \cup LowerSymbols \cup {end_marker, epsilon, augmented_start}

isupper(symbol) == symbol \in UpperSymbols

\* The production lines a grammar file of the model is made of, in file order.
GrammarLines ==
  << [left |-> "S", rhs |-> <<"A", "a">>],
     [left |-> "S", rhs |-> <<"a", "S">>],
     [left |-> "S", rhs |-> <<"a", "S", "a">>],
     [left |-> "S", rhs |-> <<"S", "a">>],
     [left |-> "S", rhs |-> <<"A">>],
     [left |-> "S", rhs |-> <<"a">>],
     [left |-> "S", rhs |-> <<"e">>],
     [left |-> "A", rhs |-> <<"S", "a">>],
     [left |-> "A", rhs |-> <<"a", "A">>],
     [left |-> "A", rhs |-> <<"a">>],
     [left |-> "A", rhs |-> <<"e">>] >>

Range(s) == {s[i] : i \in DOMAIN s}

Min(a, b) == IF a < b THEN a ELSE b

RECURSIVE SortedSeq(_)
SortedSeq(S) ==
  IF S = {} THEN <<>>
  ELSE LET m == CHOOSE x \in S : \A y \in S : x <= y
       IN <<m>> \o SortedSeq(S \ {m})

\* A grammar file: at most MaxProds lines of GrammarLines, in that order.
\* The loading layer hands over well-formed grammars only: the start symbol
\* has a production and so has every nonterminal of a right-hand side.
WellFormedFile(idx) ==
  /\ \E i \in idx : GrammarLines[i].left = start_symbol
  /\ \A i \in idx : \A k \in DOMAIN GrammarLines[i].rhs :
        isupper(GrammarLines[i].rhs[k]) =>
          \E j \in idx : GrammarLines[j].left = GrammarLines[i].rhs[k]

GrammarFiles ==
  { [k \in 1..Cardinality(idx) |-> GrammarLines[SortedSeq(idx)[k]]] :
      idx \in { t \in SUBSET (1..Len(GrammarLines)) :
                  Cardinality(t) \in 1..MaxProds /\ WellFormedFile(t) } }

\* Grammar files over two terminals, for the runs of build_ll1_table in which
\* the enumeration order of a set of terminals decides what is met first.
TableGrammarLines ==
  << [left |-> "S", rhs |-> <<"A">>],
     [left |-> "S", rhs |-> <<"b">>],
     [left |-> "A", rhs |-> <<"a", "S", "a">>],
     [left |-> "A", rhs |-> <<"b", "S", "b">>],
     [left |-> "A", rhs |-> <<"b">>],
     [left |-> "A", rhs |-> <<"e">>] >>

TableGrammarFiles ==
  { [k \in 1..Cardinality(idx) |-> TableGrammarLines[SortedSeq(idx)[k]]] :
      idx \in { t \in SUBSET (1..Len(TableGrammarLines)) :
                  /\ \E i \in t : TableGrammarLines[i].left = start_symbol
                  /\ \A i \in t : \A k \in DOMAIN TableGrammarLines[i].rhs :
                        isupper(TableGrammarLines[i].rhs[k]) =>
                          \E j \in t : TableGrammarLines[j].left
                                          = TableGrammarLines[i].rhs[k] } }

\* Input strings typed at the prompt: non-empty (an empty line leaves the
\* string loop), one character per position.
InputChars == {"a", "S"}
InputStrings == UNION { [1..n -> InputChars] : n \in 1..MaxInput }

\* ------------------------------------------------------------------------
\* The hash seed of the process.  It fixes the iteration order of every set
\* of strings and the value of hash() on every production.
\* ------------------------------------------------------------------------
Seeds == {"s1", "s2", "s3", "s4"}

SetOrder(seed) ==
  CASE seed = "s1" -> <<"S", "A", "a", "b", "$">>
    [] seed = "s2" -> <<"A", "S", "$", "b", "a">>
    [] seed = "s3" -> <<"b", "a", "$", "S", "A">>
    [] OTHER       -> <<"$", "a", "b", "A", "S">>

\* list(set) under the seed: the elements of S in iteration order.
Iterate(S, seed) ==
  LET In(x) == x \in S IN SelectSeq(SetOrder(seed), In)

VARIABLES
  seed,            \* hash seed of the process
  pc,              \* position of the driver (GrammarParser.run)
  productions,     \* the productions dict, shared by all four objects
  nonterminals,
  terminals,
  first_sets,
  follow_sets,
  changed,         \* loop flag of the running fixpoint loop
  iteration,       \* pass counter of the running fixpoint loop
  ll1_class,       \* what is_ll1 returned and why, "none" before it ran
  slr1_states,
  slr1_gotos,
  slr1_actions,
  state_id,        \* loop variable of build_slr1_states
  conflictos_encontrados,  \* of is_slr1, None before it has counted
  ll1_table,
  table_built,     \* what the last build_ll1_table returned, "none" before
  input_string,    \* the string of the running or last parse, end marker added
  stack,
  input_pos,
  output           \* what the last command or parse printed

grammar_vars == <<seed, productions, nonterminals, terminals>>
ff_vars      == <<first_sets, follow_sets, changed, iteration>>
slr1_vars    == <<slr1_states, slr1_gotos, slr1_actions, state_id,
                  conflictos_encontrados>>
ll1_vars     == <<ll1_class, ll1_table, table_built>>
parse_vars   == <<input_string, stack, input_pos, output>>

vars == <<pc, grammar_vars, ff_vars, slr1_vars, ll1_vars, parse_vars>>

\* ------------------------------------------------------------------------
\* The productions dict: keys in insertion order, each with its list of
\* right-hand sides in insertion order.
\* ------------------------------------------------------------------------
DictKeys(prods) == {prods[i].left : i \in DOMAIN prods}

\* productions[left]
DictGet(prods, left) ==
  IF left \in DictKeys(prods)
  THEN prods[CHOOSE i \in DOMAIN prods : prods[i].left = left].alts
  ELSE <<>>

\* productions[left] = alts
DictSet(prods, left, alts) ==
  IF left \in DictKeys(prods)
  THEN [i \in DOMAIN prods |->
          IF prods[i].left = left THEN [left |-> left, alts |-> alts] ELSE prods[i]]
  ELSE Append(prods, [left |-> left, alts |-> alts])

\* ------------------------------------------------------------------------
\* GrammarParser.read_grammar
\* ------------------------------------------------------------------------
RECURSIVE ReadLines(_, _, _)
ReadLines(lines, k, g) ==
  IF k > Len(lines) THEN g
  ELSE LET left_side  == lines[k].left
           production == lines[k].rhs
           syms       == {production[i] : i \in DOMAIN production} \ {epsilon}
       IN ReadLines(lines, k + 1,
            [productions  |-> DictSet(g.productions, left_side,
                                 Append(DictGet(g.productions, left_side), production)),
             nonterminals |-> g.nonterminals \cup {left_side}
                                 \cup {s \in syms : isupper(s)},
             terminals    |-> g.terminals \cup {s \in syms : ~isupper(s)}])

read_grammar(lines) ==
  LET g == ReadLines(lines, 1,
             [productions |-> <<>>, nonterminals |-> {}, terminals |-> {}])
  IN [g EXCEPT !.terminals = @ \cup {end_marker}]

\* ------------------------------------------------------------------------
\* FirstFollowCalculator
\* ------------------------------------------------------------------------
EmptySets == [s \in SymbolUniverse |-> {}]

\* the initialisation of compute_first_sets leaving the end marker out
FirstInitWithoutEndMarker(nts, ts) ==
  [s \in SymbolUniverse |->
     IF s \in ts \ {end_marker} /\ s \notin nts THEN {s} ELSE {}]

\* compute_first_sets, before the loop
FirstInit(nts, ts) ==
  [s \in SymbolUniverse |-> IF s \in ts /\ s \notin nts THEN {s} ELSE {}]

\* the loop over the symbols of a production not entered at all
FirstScanNotEntered(fs, nt, production, i) == fs

RECURSIVE FirstScan(_, _, _, _)
\* the while loop over the symbols of one production; i counts from 0
FirstScan(fs, nt, production, i) ==
  IF i < Len(production) /\ epsilon \in fs[production[i + 1]]
  THEN LET j   == i + 1
           fs2 == IF j < Len(production)
                  THEN [fs EXCEPT ![nt] = @ \cup (fs[production[j + 1]] \ {epsilon})]
                  ELSE fs
       IN FirstScan(fs2, nt, production, j)
  ELSE IF i = Len(production)
       THEN [fs EXCEPT ![nt] = @ \cup {epsilon}]
       ELSE fs

\* the loop body of compute_first_sets passing over an epsilon production
FirstOfProductionSkippingEpsilon(fs, nt, production) ==
  IF production = <<epsilon>>
  THEN fs
  ELSE FirstScan([fs EXCEPT ![nt] = @ \cup (fs[production[1]] \ {epsilon})],
                 nt, production, 0)

FirstOfProduction(fs, nt, production) ==
  IF production = <<epsilon>>
  THEN [fs EXCEPT ![nt] = @ \cup {epsilon}]
  ELSE FirstScan([fs EXCEPT ![nt] = @ \cup (fs[production[1]] \ {epsilon})],
                 nt, production, 0)

RECURSIVE FirstOfProductions(_, _, _, _)
FirstOfProductions(fs, nt, alts, k) ==
  IF k > Len(alts) THEN fs
  ELSE FirstOfProductions(FirstOfProduction(fs, nt, alts[k]), nt, alts, k + 1)

RECURSIVE FirstPassFrom(_, _, _, _)
\* one pass of the outer while loop: every nonterminal, in iteration order
FirstPassFrom(st, prods, order, k) ==
  IF k > Len(order) THEN st
  ELSE LET nt  == order[k]
           fs2 == FirstOfProductions(st.sets, nt, DictGet(prods, nt), 1)
       IN FirstPassFrom(
            [sets    |-> fs2,
             changed |-> st.changed
                           \/ Cardinality(fs2[nt]) > Cardinality(st.sets[nt])],
            prods, order, k + 1)

\* a pass of compute_first_sets that starts with changed = True
FirstPassChangedAtStart(fs, prods, order) ==
  FirstPassFrom([sets |-> fs, changed |-> TRUE], prods, order, 1)

FirstPass(fs, prods, order) ==
  FirstPassFrom([sets |-> fs, changed |-> FALSE], prods, order, 1)

RECURSIVE FirstOfStringLoop(_, _, _, _)
FirstOfStringLoop(fs, symbols, i, first_set) ==
  IF i >= Len(symbols) THEN first_set \cup {epsilon}
  ELSE LET symbol == symbols[i + 1]
           acc    == first_set \cup (fs[symbol] \ {epsilon})
       IN IF epsilon \notin fs[symbol] THEN acc
          ELSE FirstOfStringLoop(fs, symbols, i + 1, acc)

\* FirstFollowCalculator.compute_first_of_string
ff_compute_first_of_string(fs, symbols) ==
  IF symbols = <<>> THEN {epsilon}
  ELSE FirstOfStringLoop(fs, symbols, 0, {})

\* the initialisation of compute_follow_sets without its step 1
FollowInitWithoutEndMarker == EmptySets

\* compute_follow_sets, before the loop
FollowInit ==
  [EmptySets EXCEPT ![start_symbol] = @ \cup {end_marker}]

\* one occurrence handled without the union of Follow(left_side)
FollowOfOccurrenceFirstOnly(fo, fs, nonterminal, left_side, production, i) ==
  IF i < Len(production)
  THEN [fo EXCEPT ![nonterminal] = @ \cup
          (ff_compute_first_of_string(fs, SubSeq(production, i + 1, Len(production)))
             \ {epsilon})]
  ELSE fo

\* one occurrence production[i] = nonterminal in left_side -> production
FollowOfOccurrence(fo, fs, nonterminal, left_side, production, i) ==
  IF i < Len(production)
  THEN LET beta       == SubSeq(production, i + 1, Len(production))
           first_beta == ff_compute_first_of_string(fs, beta)
           fo1        == [fo EXCEPT ![nonterminal] = @ \cup (first_beta \ {epsilon})]
       IN IF epsilon \in first_beta
          THEN [fo1 EXCEPT ![nonterminal] = @ \cup fo1[left_side]]
          ELSE fo1
  ELSE [fo EXCEPT ![nonterminal] = @ \cup fo[left_side]]

RECURSIVE FollowOfSymbols(_, _, _, _, _, _)
FollowOfSymbols(fo, fs, nonterminal, left_side, production, i) ==
  IF i > Len(production) THEN fo
  ELSE FollowOfSymbols(
         IF production[i] = nonterminal
         THEN FollowOfOccurrence(fo, fs, nonterminal, left_side, production, i)
         ELSE fo,
         fs, nonterminal, left_side, production, i + 1)

RECURSIVE FollowOfAlts(_, _, _, _, _, _)
FollowOfAlts(fo, fs, nonterminal, left_side, alts, k) ==
  IF k > Len(alts) THEN fo
  ELSE FollowOfAlts(FollowOfSymbols(fo, fs, nonterminal, left_side, alts[k], 1),
                    fs, nonterminal, left_side, alts, k + 1)

RECURSIVE FollowOfItems(_, _, _, _, _)
\* for left_side, productions in self.productions.items()
FollowOfItems(fo, fs, nonterminal, prods, k) ==
  IF k > Len(prods) THEN fo
  ELSE FollowOfItems(
         FollowOfAlts(fo, fs, nonterminal, prods[k].left, prods[k].alts, 1),
         fs, nonterminal, prods, k + 1)

RECURSIVE FollowPassFrom(_, _, _, _, _)
FollowPassFrom(st, fs, prods, order, k) ==
  IF k > Len(order) THEN st
  ELSE LET nt  == order[k]
           fo2 == FollowOfItems(st.sets, fs, nt, prods, 1)
       IN FollowPassFrom(
            [sets    |-> fo2,
             changed |-> st.changed
                           \/ Cardinality(fo2[nt]) > Cardinality(st.sets[nt])],
            fs, prods, order, k + 1)

\* a pass of compute_follow_sets that starts from empty sets
FollowPassFromEmpty(fo, fs, prods, order) ==
  FollowPassFrom([sets |-> EmptySets, changed |-> FALSE], fs, prods, order, 1)

FollowPass(fo, fs, prods, order) ==
  FollowPassFrom([sets |-> fo, changed |-> FALSE], fs, prods, order, 1)

\* ------------------------------------------------------------------------
\* LL1Parser
\* ------------------------------------------------------------------------
RECURSIVE LL1FirstOfStringLoop(_, _, _, _)
LL1FirstOfStringLoop(fs, symbols, i, first_set) ==
  IF i >= Len(symbols) THEN first_set \cup {epsilon}
  ELSE LET symbol == symbols[i + 1]
           acc    == first_set \cup (fs[symbol] \ {epsilon})
       IN IF epsilon \notin fs[symbol] THEN acc
          ELSE LL1FirstOfStringLoop(fs, symbols, i + 1, acc)

\* LL1Parser.compute_first_of_string
compute_first_of_string(fs, symbols) ==
  IF symbols = <<>> THEN {epsilon}
  ELSE LL1FirstOfStringLoop(fs, symbols, 0, {})

\* has_left_recursion looking at the last symbol of the production
has_left_recursion_last(prods, nts) ==
  \E nt \in nts : \E k \in DOMAIN DictGet(prods, nt) :
    LET production == DictGet(prods, nt)[k]
    IN production # <<>> /\ production[Len(production)] = nt

has_left_recursion(prods, nts) ==
  \E nt \in nts : \E k \in DOMAIN DictGet(prods, nt) :
    LET production == DictGet(prods, nt)[k]
    IN production # <<>> /\ production[1] = nt

\* the loop over k returns True at the first k > 0 it reaches without a break
has_left_factoring(prods, nts) ==
  \E nt \in nts :
    LET alts == DictGet(prods, nt) IN
      \E i \in DOMAIN alts : \E j \in DOMAIN alts :
        /\ i < j
        /\ \E k \in 1..(Min(Len(alts[i]), Len(alts[j])) - 1) :
             \A m \in 0..k : alts[i][m + 1] = alts[j][m + 1]

\* the pairwise check of is_ll1 on productions i < j of one nonterminal
FirstFollowConflict(fs, fo, nt, prod1, prod2) ==
  LET first1 == compute_first_of_string(fs, prod1)
      first2 == compute_first_of_string(fs, prod2)
  IN \/ first1 \cap first2 # {}
     \/ epsilon \in first1 /\ first2 \cap fo[nt] # {}
     \/ epsilon \in first2 /\ first1 \cap fo[nt] # {}

\* is_ll1: the check that makes it return False, "ok" when it returns True
is_ll1(prods, nts, fs, fo) ==
  IF has_left_recursion(prods, nts) THEN "left_recursion"
  ELSE IF has_left_factoring(prods, nts) THEN "left_factoring"
  ELSE IF \E nt \in nts :
            LET alts == DictGet(prods, nt) IN
              \E i \in DOMAIN alts : \E j \in DOMAIN alts :
                i < j /\ FirstFollowConflict(fs, fo, nt, alts[i], alts[j])
       THEN "first_follow"
       ELSE "ok"

\* the cells one production tries to fill, in the order it tries them
CellsOfProduction(fs, fo, sd, nt, production) ==
  LET first_alpha == compute_first_of_string(fs, production)
      from_first  == Iterate(first_alpha \ {epsilon}, sd)
      from_follow == IF epsilon \in first_alpha THEN Iterate(fo[nt], sd) ELSE <<>>
      ts          == from_first \o from_follow
  IN [k \in 1..Len(ts) |-> [key |-> <<nt, ts[k]>>, production |-> production]]

RECURSIVE CellsOfAlts(_, _, _, _, _, _)
CellsOfAlts(fs, fo, sd, nt, alts, k) ==
  IF k > Len(alts) THEN <<>>
  ELSE CellsOfProduction(fs, fo, sd, nt, alts[k])
         \o CellsOfAlts(fs, fo, sd, nt, alts, k + 1)

RECURSIVE CellsOfGrammar(_, _, _, _, _, _)
CellsOfGrammar(prods, fs, fo, sd, order, k) ==
  IF k > Len(order) THEN <<>>
  ELSE CellsOfAlts(fs, fo, sd, order[k], DictGet(prods, order[k]), 1)
         \o CellsOfGrammar(prods, fs, fo, sd, order, k + 1)

NoKey == <<>>

RECURSIVE FillTable(_, _, _)
\* fill the cells in order; stop at the first cell that is already filled:
\* conflict is the key printed, production the one that was to go there
FillTable(cells, k, table) ==
  IF k > Len(cells)
  THEN [ok |-> TRUE, table |-> table, conflict |-> NoKey, production |-> <<>>]
  ELSE IF cells[k].key \in DOMAIN table
       THEN [ok |-> FALSE, table |-> table, conflict |-> cells[k].key,
             production |-> cells[k].production]
       ELSE FillTable(cells, k + 1, (cells[k].key :> cells[k].production) @@ table)

EmptyTable == [key \in {} |-> <<>>]

build_ll1_table(prods, nts, fs, fo, sd) ==
  FillTable(CellsOfGrammar(prods, fs, fo, sd, Iterate(nts, sd), 1), 1, EmptyTable)

RECURSIVE Reversed(_)
Reversed(s) == IF s = <<>> THEN <<>> ELSE Reversed(Tail(s)) \o <<s[1]>>

Pop(stk) == SubSeq(stk, 1, Len(stk) - 1)

\* current_input of both parse loops; pos counts from 0
CurrentInput(input, pos) ==
  IF pos < Len(input) THEN input[pos + 1] ELSE end_marker

\* one iteration of the loop of LL1Parser.parse;
\* ret is "none" while the loop goes on, else the value returned
ll1_parse_step(table, ts, input, stk, pos) ==
  LET top           == stk[Len(stk)]
      current_input == CurrentInput(input, pos)
      key           == <<top, current_input>>
  IN IF top = current_input /\ current_input = end_marker
     THEN [stack |-> stk, input_pos |-> pos, ret |-> "True"]
     ELSE IF top = current_input
     THEN [stack |-> Pop(stk), input_pos |-> pos + 1,
           ret |-> IF Pop(stk) = <<>> THEN "False" ELSE "none"]
     ELSE IF top \in ts
     THEN [stack |-> stk, input_pos |-> pos, ret |-> "False"]
     ELSE IF key \notin DOMAIN table
     THEN [stack |-> stk, input_pos |-> pos, ret |-> "False"]
     ELSE LET production == table[key]
              pushed     == IF production # <<epsilon>>
                            THEN Pop(stk) \o Reversed(production)
                            ELSE Pop(stk)
          IN [stack |-> pushed, input_pos |-> pos,
              ret |-> IF pushed = <<>> THEN "False" ELSE "none"]

\* ------------------------------------------------------------------------
\* SLR1Parser
\* ------------------------------------------------------------------------
HashModulus == 1000

SymbolCode(symbol) ==
  CASE symbol = "S" -> 1
    [] symbol = "A" -> 2
    [] symbol = "a" -> 3
    [] symbol = "e" -> 4
    [] symbol = "S'" -> 5
    [] OTHER -> 6

RECURSIVE ContentCode(_)
ContentCode(symbols) ==
  IF symbols = <<>> THEN 0
  ELSE SymbolCode(symbols[1]) + 7 * ContentCode(Tail(symbols))

\* hash((left, tuple(production))): a function of the content that the seed
\* of the process picks; distinct contents may hash alike
TupleHash(sd, left, production) ==
  LET c == ContentCode(<<left>> \o production)
  IN CASE sd = "s1" -> c
       [] sd = "s2" -> 500 * c
       [] sd = "s3" -> 250 * c + 250
       [] OTHER     -> 7 * c + 13

get_production_id(sd, left, production) ==
  TupleHash(sd, left, production) % HashModulus

Item(left, production, dot, production_id) ==
  [left |-> left, production |-> production, dot |-> dot,
   production_id |-> production_id]

\* the items the inner loop over productions[next_symbol] appends for one item
RECURSIVE ClosureAdd(_, _, _, _, _)
ClosureAdd(st, prods, sd, next_symbol, k) ==
  LET alts == DictGet(prods, next_symbol) IN
  IF k > Len(alts) THEN st
  ELSE LET new_item == Item(next_symbol, alts[k], 0,
                            get_production_id(sd, next_symbol, alts[k]))
       IN ClosureAdd(
            IF new_item \notin Range(st.closure)
            THEN [closure |-> Append(st.closure, new_item), changed |-> TRUE]
            ELSE st,
            prods, sd, next_symbol, k + 1)

\* for item in closure: the list grows while it is iterated
RECURSIVE ClosureScan(_, _, _, _, _)
ClosureScan(st, prods, nts, sd, i) ==
  IF i > Len(st.closure) THEN st
  ELSE LET item == st.closure[i] IN
       ClosureScan(
         IF item.dot < Len(item.production)
            /\ item.production[item.dot + 1] \in nts
         THEN ClosureAdd(st, prods, sd, item.production[item.dot + 1], 1)
         ELSE st,
         prods, nts, sd, i + 1)

RECURSIVE ClosureWhile(_, _, _, _)
ClosureWhile(closure, prods, nts, sd) ==
  LET st == ClosureScan([closure |-> closure, changed |-> FALSE], prods, nts, sd, 1)
  IN IF st.changed THEN ClosureWhile(st.closure, prods, nts, sd) ELSE st.closure

compute_closure(items, prods, nts, sd) == ClosureWhile(items, prods, nts, sd)

\* the loop of compute_goto leaving after the first item it moves
GotoKernelFirstItemOnly(items, symbol, i) ==
  LET hits == {k \in DOMAIN items :
                 /\ items[k].dot < Len(items[k].production)
                 /\ items[k].production[items[k].dot + 1] = symbol}
      first == CHOOSE k \in hits : \A m \in hits : k <= m
  IN IF hits = {} THEN <<>>
     ELSE <<Item(items[first].left, items[first].production, items[first].dot + 1,
                 items[first].production_id)>>

RECURSIVE GotoKernel(_, _, _)
GotoKernel(items, symbol, i) ==
  IF i > Len(items) THEN <<>>
  ELSE (IF items[i].dot < Len(items[i].production)
           /\ items[i].production[items[i].dot + 1] = symbol
        THEN <<Item(items[i].left, items[i].production, items[i].dot + 1,
                    items[i].production_id)>>
        ELSE <<>>)
       \o GotoKernel(items, symbol, i + 1)

compute_goto(items, symbol, prods, nts, sd) ==
  compute_closure(GotoKernel(items, symbol, 1), prods, nts, sd)

None == -1

\* find_state_with_items finding no state
find_state_with_items_none(states, items) == None

\* find_state_with_items comparing the lengths of the item lists only
find_state_with_items_by_length(states, items) ==
  LET hits == {k \in DOMAIN states : Len(states[k].items) = Len(items)}
  IN IF hits = {} THEN None
     ELSE states[CHOOSE k \in hits : \A m \in hits : k <= m].id

\* the id of the first state with as many items, all items among them
find_state_with_items(states, items) ==
  LET hits == {k \in DOMAIN states :
                 /\ Len(states[k].items) = Len(items)
                 /\ \A i \in DOMAIN items : items[i] \in Range(states[k].items)}
  IN IF hits = {} THEN None
     ELSE states[CHOOSE k \in hits : \A m \in hits : k <= m].id

\* "s<n>" and "r<n>": the letter and the number that int(action[1:]) reads back
Shift(n) == <<"s", n>>
Reduce(n) == <<"r", n>>
Accept == <<"accept", 0>>

EmptyMap == [key \in {} |-> 0]

\* build_slr1_states, before the loop: the augmented production goes into the
\* productions dict the parser was given
initial_state ==
  [id |-> 0, items |-> <<Item(augmented_start, <<start_symbol>>, 0, 0)>>]

\* the body of "for symbol in self.terminals | self.nonterminals" for one symbol
BuildSymbol(a, symbol, closure_items, sid, prods, nts, ts, sd) ==
  LET goto_items == compute_goto(closure_items, symbol, prods, nts, sd)
  IN IF goto_items = <<>> THEN a
     ELSE LET found  == find_state_with_items(a.states, goto_items)
              states == IF found = None
                        THEN Append(a.states,
                                    [id |-> Len(a.states), items |-> goto_items])
                        ELSE a.states
              existing_sid == IF found = None THEN Len(a.states) ELSE found
          IN [states  |-> states,
              gotos   |-> (<<sid, symbol>> :> existing_sid) @@ a.gotos,
              actions |-> IF symbol \in ts
                          THEN (<<sid, symbol>> :> Shift(existing_sid))
                                 @@ a.actions
                          ELSE a.actions]

RECURSIVE BuildSymbols(_, _, _, _, _, _, _, _, _)
BuildSymbols(a, order, k, closure_items, sid, prods, nts, ts, sd) ==
  IF k > Len(order) THEN a
  ELSE BuildSymbols(
         BuildSymbol(a, order[k], closure_items, sid, prods, nts, ts, sd),
         order, k + 1, closure_items, sid, prods, nts, ts, sd)

\* one iteration of the while loop of build_slr1_states, for states[sid], the
\* set self.terminals | self.nonterminals being enumerated in the given order
build_state_in(a, sid, order, prods, nts, ts, sd) ==
  LET closure_items == compute_closure(a.states[sid + 1].items, prods, nts, sd)
      closed        == [a EXCEPT !.states[sid + 1].items = closure_items]
  IN BuildSymbols(closed, order, 1, closure_items, sid, prods, nts, ts, sd)

\* one iteration of the while loop of build_slr1_states, for states[sid]
build_state(a, sid, prods, nts, ts, sd) ==
  build_state_in(a, sid, Iterate(ts \cup nts, sd), prods, nts, ts, sd)

RECURSIVE BuildStatesFrom(_, _, _, _, _, _, _)
BuildStatesFrom(a, sid, order, prods, nts, ts, sd) ==
  IF sid >= Len(a.states) THEN a
  ELSE BuildStatesFrom(build_state_in(a, sid, order, prods, nts, ts, sd),
                       sid + 1, order, prods, nts, ts, sd)

\* a whole run of build_slr1_states, from the initial state to the end of its
\* loop, under one enumeration order of the symbol set
build_slr1_states(order, prods, nts, ts, sd) ==
  BuildStatesFrom([states |-> <<initial_state>>, gotos |-> EmptyMap,
                   actions |-> EmptyMap],
                  0, order, prods, nts, ts, sd)

\* the actions list is_slr1 collects for one state and one symbol
ActionsOf(state, symbol, actions, fo) ==
  (IF <<state.id, symbol>> \in DOMAIN actions
      /\ actions[<<state.id, symbol>>][1] = "s"
   THEN <<actions[<<state.id, symbol>>]>>
   ELSE <<>>)
  \o LET Complete(item) == item.dot = Len(item.production)
                           /\ symbol \in fo[item.left]
         hits == SelectSeq(state.items, Complete)
     IN [k \in 1..Len(hits) |-> Reduce(hits[k].production_id)]

\* conflictos_encontrados at the end of is_slr1
count_conflicts(states, actions, nts, ts, fo) ==
  Cardinality({ c \in (DOMAIN states) \X (ts \cup nts) :
                  Len(ActionsOf(states[c[1]], c[2], actions, fo)) > 1 })

RECURSIVE ProductionByIdIn(_, _, _, _, _)
ProductionByIdIn(prods, sd, production_id, k, j) ==
  IF k > Len(prods) THEN <<>>
  ELSE IF j > Len(prods[k].alts)
       THEN ProductionByIdIn(prods, sd, production_id, k + 1, 1)
       ELSE IF get_production_id(sd, prods[k].left, prods[k].alts[j]) = production_id
            THEN <<prods[k].left, prods[k].alts[j]>>
            ELSE ProductionByIdIn(prods, sd, production_id, k, j + 1)

\* (left, production) of the first production with that id, <<>> for None
get_production_by_id(prods, sd, production_id) ==
  ProductionByIdIn(prods, sd, production_id, 1, 1)

RECURSIVE PopN(_, _)
\* for _ in range(n): if len(stack) > 1: stack.pop()
PopN(stk, n) ==
  IF n = 0 THEN stk
  ELSE PopN(IF Len(stk) > 1 THEN Pop(stk) ELSE stk, n - 1)

\* one iteration of the loop of SLR1Parser.parse
slr1_parse_step(actions, gotos, prods, sd, input, stk, pos) ==
  LET current_state == stk[Len(stk)]
      current_input == CurrentInput(input, pos)
      key           == <<current_state, current_input>>
      go_on(s, p)   == [stack |-> s, input_pos |-> p, ret |-> "none"]
      return(v)     == [stack |-> stk, input_pos |-> pos, ret |-> v]
  IN IF key \notin DOMAIN actions THEN return("False")
     ELSE LET action == actions[key] IN
       IF action[1] = "s" THEN go_on(Append(stk, action[2]), pos + 1)
       ELSE IF action[1] = "r"
       THEN LET production == get_production_by_id(prods, sd, action[2]) IN
              IF production = <<>> THEN return("False")
              ELSE LET popped == PopN(stk, Len(production[2]))
                       gkey   == <<popped[Len(popped)], production[1]>>
                   IN IF gkey \in DOMAIN gotos
                      THEN go_on(Append(popped, gotos[gkey]), pos)
                      ELSE return("False")
       ELSE IF action = Accept THEN return("True")
       ELSE return("False")

\* ------------------------------------------------------------------------
\* Actions
\* ------------------------------------------------------------------------
Init ==
  /\ seed \in Seeds
  /\ pc = "read"
  /\ productions = <<>>
  /\ nonterminals = {}
  /\ terminals = {}
  /\ first_sets = EmptySets
  /\ follow_sets = EmptySets
  /\ changed = FALSE
  /\ iteration = 0
  /\ ll1_class = "none"
  /\ slr1_states = <<>>
  /\ slr1_gotos = EmptyMap
  /\ slr1_actions = EmptyMap
  /\ state_id = 0
  /\ conflictos_encontrados = None
  /\ ll1_table = EmptyTable
  /\ table_built = "none"
  /\ input_string = <<>>
  /\ stack = <<>>
  /\ input_pos = 0
  /\ output = "none"

\* run(): read_grammar(), then compute_first_sets() up to its loop
ReadGrammar ==
  /\ pc = "read"
  /\ \E lines \in GrammarFiles :
       LET g == read_grammar(lines) IN
         /\ productions' = g.productions
         /\ nonterminals' = g.nonterminals
         /\ terminals' = g.terminals
         /\ first_sets' = FirstInit(g.nonterminals, g.terminals)
  /\ changed' = TRUE
  /\ iteration' = 0
  /\ pc' = "first"
  /\ UNCHANGED <<seed, follow_sets, slr1_vars, ll1_vars, parse_vars>>

\* one pass of the loop of compute_first_sets
FirstLoopPass ==
  /\ pc = "first"
  /\ changed
  /\ LET st == FirstPass(first_sets, productions, Iterate(nonterminals, seed)) IN
       /\ first_sets' = st.sets
       /\ changed' = st.changed
  /\ iteration' = iteration + 1
  /\ UNCHANGED <<pc, grammar_vars, follow_sets, slr1_vars, ll1_vars, parse_vars>>

\* compute_first_sets returns; compute_follow_sets(start_symbol) up to its loop
FollowStart ==
  /\ pc = "first"
  /\ ~changed
  /\ follow_sets' = FollowInit
  /\ changed' = TRUE
  /\ iteration' = 0
  /\ pc' = "follow"
  /\ UNCHANGED <<grammar_vars, first_sets, slr1_vars, ll1_vars, parse_vars>>

\* one pass of the loop of compute_follow_sets
FollowLoopPass ==
  /\ pc = "follow"
  /\ changed
  /\ LET st == FollowPass(follow_sets, first_sets, productions,
                          Iterate(nonterminals, seed)) IN
       /\ follow_sets' = st.sets
       /\ changed' = st.changed
  /\ iteration' = iteration + 1
  /\ UNCHANGED <<pc, grammar_vars, first_sets, slr1_vars, ll1_vars, parse_vars>>

\* compute_follow_sets returns; run() makes the parsers and calls is_ll1()
ClassifyLL1 ==
  /\ pc = "follow"
  /\ ~changed
  /\ ll1_class' = is_ll1(productions, nonterminals, first_sets, follow_sets)
  /\ pc' = "is_slr1"
  /\ UNCHANGED <<grammar_vars, ff_vars, slr1_vars, ll1_table, table_built, parse_vars>>

\* build_slr1_states storing the augmented production under the start symbol
BuildSLR1StartOverStartSymbol ==
  /\ pc = "is_slr1"
  /\ productions' = DictSet(productions, start_symbol, <<(<<start_symbol>>)>>)
  /\ slr1_states' = <<initial_state>>
  /\ slr1_gotos' = EmptyMap
  /\ slr1_actions' = EmptyMap
  /\ state_id' = 0
  /\ pc' = "build_slr1_states"
  /\ UNCHANGED <<seed, nonterminals, terminals, ff_vars, conflictos_encontrados,
                 ll1_vars, parse_vars>>

\* is_slr1() calls build_slr1_states(), here up to its loop
BuildSLR1Start ==
  /\ pc = "is_slr1"
  /\ productions' = DictSet(productions, augmented_start, <<(<<start_symbol>>)>>)
  /\ slr1_states' = <<initial_state>>
  /\ slr1_gotos' = EmptyMap
  /\ slr1_actions' = EmptyMap
  /\ state_id' = 0
  /\ pc' = "build_slr1_states"
  /\ UNCHANGED <<seed, nonterminals, terminals, ff_vars, conflictos_encontrados,
                 ll1_vars, parse_vars>>

\* one iteration of the loop of build_slr1_states
BuildSLR1State ==
  /\ pc = "build_slr1_states"
  /\ state_id < Len(slr1_states)
  /\ LET a == build_state([states |-> slr1_states, gotos |-> slr1_gotos,
                           actions |-> slr1_actions],
                          state_id, productions, nonterminals, terminals, seed) IN
       /\ slr1_states' = a.states
       /\ slr1_gotos' = a.gotos
       /\ slr1_actions' = a.actions
  /\ state_id' = state_id + 1
  /\ UNCHANGED <<pc, grammar_vars, ff_vars, conflictos_encontrados, ll1_vars,
                 parse_vars>>

\* build_slr1_states returns True; is_slr1 counts the conflicts and returns
CheckSLR1 ==
  /\ pc = "build_slr1_states"
  /\ state_id >= Len(slr1_states)
  /\ conflictos_encontrados' =
       count_conflicts(slr1_states, slr1_actions, nonterminals, terminals, follow_sets)
  /\ pc' = "menu"
  /\ UNCHANGED <<grammar_vars, ff_vars, slr1_states, slr1_gotos, slr1_actions,
                 state_id, ll1_vars, parse_vars>>

is_ll1_result == ll1_class = "ok"
is_slr1_result == conflictos_encontrados = 0

\* the command T in any of the four handle_* loops
CommandT ==
  /\ pc = "menu"
  /\ IF is_ll1_result
     THEN LET b == build_ll1_table(productions, nonterminals, first_sets,
                                   follow_sets, seed) IN
            /\ ll1_table' = b.table
            /\ table_built' = IF b.ok THEN "True" ELSE "False"
            /\ output' = "table"
            /\ pc' = "parse_strings_ll1"
     ELSE /\ output' = "No es posible usar LL(1) parser."
          /\ UNCHANGED <<pc, ll1_table, table_built>>
  /\ UNCHANGED <<grammar_vars, ff_vars, slr1_vars, ll1_class, input_string, stack,
                 input_pos>>

\* the command B
CommandB ==
  /\ pc = "menu"
  /\ IF is_slr1_result
     THEN /\ output' = "table"
          /\ pc' = "parse_strings_slr1"
     ELSE /\ output' = "No es posible usar SLR(1) parser."
          /\ pc' = pc
  /\ UNCHANGED <<grammar_vars, ff_vars, slr1_vars, ll1_vars, input_string, stack,
                 input_pos>>

\* the command Q
CommandQ ==
  /\ pc = "menu"
  /\ pc' = "quit"
  /\ UNCHANGED <<grammar_vars, ff_vars, slr1_vars, ll1_vars, parse_vars>>

\* parse_strings_*: an empty line or the end of the input ends the loop
EndStrings ==
  /\ pc \in {"parse_strings_ll1", "parse_strings_slr1"}
  /\ pc' = "menu"
  /\ input_string' = <<>>
  /\ output' = "none"
  /\ UNCHANGED <<grammar_vars, ff_vars, slr1_vars, ll1_vars, stack, input_pos>>

\* parse_strings_ll1 reads a string; LL1Parser.parse up to its loop
LL1ParseStart ==
  /\ pc = "parse_strings_ll1"
  /\ \E w \in InputStrings : input_string' = w \o <<end_marker>>
  /\ stack' = <<end_marker, "S">>
  /\ input_pos' = 0
  /\ output' = "none"
  /\ pc' = "ll1_parse"
  /\ UNCHANGED <<grammar_vars, ff_vars, slr1_vars, ll1_vars>>

MaxRhsLen(prods) ==
  LET lens == {Len(prods[k].alts[j]) : <<k, j>> \in
                 {c \in (DOMAIN prods) \X (1..Len(GrammarLines)) :
                    c[2] <= Len(prods[c[1]].alts)}}
  IN CHOOSE n \in lens : \A m \in lens : m <= n

\* A run of LL1Parser.parse that returns never expands a nonterminal below an
\* expansion of that same nonterminal made at the same cursor position (the
\* table would make it repeat that expansion for ever), so at cursor position
\* pos its stack is at most this high.
ReturningStackHeight(prods, nts, pos) ==
  2 + (pos + 1) * Cardinality(nts) * (MaxRhsLen(prods) - 1)

\* one iteration of the loop of LL1Parser.parse; a return prints yes or no.
\* A run whose stack has outgrown every returning run is followed no further.
LL1ParseStep ==
  /\ pc = "ll1_parse"
  /\ Len(stack) <= ReturningStackHeight(productions, nonterminals, input_pos)
  /\ LET r == ll1_parse_step(ll1_table, terminals, input_string, stack, input_pos) IN
       IF r.ret = "none"
       THEN /\ stack' = r.stack
            /\ input_pos' = r.input_pos
            /\ UNCHANGED <<pc, output>>
       ELSE /\ stack' = <<>>
            /\ input_pos' = 0
            /\ output' = IF r.ret = "True" THEN "yes" ELSE "no"
            /\ pc' = "parse_strings_ll1"
  /\ UNCHANGED <<grammar_vars, ff_vars, slr1_vars, ll1_vars, input_string>>

\* parse_strings_slr1 reads a string; SLR1Parser.parse up to its loop
SLR1ParseStart ==
  /\ pc = "parse_strings_slr1"
  /\ \E w \in InputStrings : input_string' = w \o <<end_marker>>
  /\ stack' = <<0>>
  /\ input_pos' = 0
  /\ output' = "none"
  /\ pc' = "slr1_parse"
  /\ UNCHANGED <<grammar_vars, ff_vars, slr1_vars, ll1_vars>>

\* one iteration of the loop of SLR1Parser.parse; a return prints yes or no
SLR1ParseStep ==
  /\ pc = "slr1_parse"
  /\ LET r == slr1_parse_step(slr1_actions, slr1_gotos, productions, seed,
                              input_string, stack, input_pos) IN
       IF r.ret = "none"
       THEN /\ stack' = r.stack
            /\ input_pos' = r.input_pos
            /\ UNCHANGED <<pc, output>>
       ELSE /\ stack' = <<>>
            /\ input_pos' = 0
            /\ output' = IF r.ret = "True" THEN "yes" ELSE "no"
            /\ pc' = "parse_strings_slr1"
  /\ UNCHANGED <<grammar_vars, ff_vars, slr1_vars, ll1_vars, input_string>>

Next ==
  \/ ReadGrammar
  \/ FirstLoopPass
  \/ FollowStart
  \/ FollowLoopPass
  \/ ClassifyLL1
  \/ BuildSLR1Start
  \/ BuildSLR1State
  \/ CheckSLR1
  \/ CommandT
  \/ CommandB
  \/ CommandQ
  \/ EndStrings
  \/ LL1ParseStart
  \/ LL1ParseStep
  \/ SLR1ParseStart
  \/ SLR1ParseStep

Spec == Init /\ [][Next]_vars

\* The program on the grammar files over two terminals as well.
ReadTableGrammar ==
  /\ pc = "read"
  /\ \E lines \in TableGrammarFiles :
       LET g == read_grammar(lines) IN
         /\ productions' = g.productions
         /\ nonterminals' = g.nonterminals
         /\ terminals' = g.terminals
         /\ first_sets' = FirstInit(g.nonterminals, g.terminals)
  /\ changed' = TRUE
  /\ iteration' = 0
  /\ pc' = "first"
  /\ UNCHANGED <<seed, follow_sets, slr1_vars, ll1_vars, parse_vars>>

TableNext ==
  \/ Next
  \/ ReadTableGrammar

TableSpec == Init /\ [][TableNext]_vars

\* ------------------------------------------------------------------------
\* The language of the grammar, by derivation: the terminal strings of length
\* at most n that each nonterminal derives.
\* ------------------------------------------------------------------------
Concat(X, Y, n) == {x \o y : <<x, y>> \in {c \in X \X Y : Len(c[1]) + Len(c[2]) <= n}}

RECURSIVE StringsOf(_, _, _, _)
StringsOf(symbols, gen, nts, n) ==
  IF symbols = <<>> THEN {<<>>}
  ELSE Concat(IF symbols[1] \in nts THEN gen[symbols[1]] ELSE {<<symbols[1]>>},
              StringsOf(Tail(symbols), gen, nts, n), n)

DeriveStep(gen, prods, nts, n) ==
  [X \in nts |->
     gen[X] \cup UNION { IF DictGet(prods, X)[k] = <<epsilon>> THEN {<<>>}
                         ELSE StringsOf(DictGet(prods, X)[k], gen, nts, n) :
                         k \in DOMAIN DictGet(prods, X) }]

RECURSIVE DeriveFix(_, _, _, _)
DeriveFix(gen, prods, nts, n) ==
  LET next == DeriveStep(gen, prods, nts, n)
  IN IF next = gen THEN gen ELSE DeriveFix(next, prods, nts, n)

Language(prods, nts, n) ==
  IF start_symbol \in nts
  THEN DeriveFix([X \in nts |-> {}], prods, nts, n)[start_symbol]
  ELSE {}

\* the string handed to parse, without the end marker parse appends
InputWord == SubSeq(input_string, 1, Len(input_string) - 1)

InLanguage == InputWord \in Language(productions, nonterminals, Len(InputWord))

LL1Returned == pc = "parse_strings_ll1" /\ output \in {"yes", "no"}
SLR1Returned == pc = "parse_strings_slr1" /\ output \in {"yes", "no"}

\* ------------------------------------------------------------------------
\* Properties of the analyser
\* ------------------------------------------------------------------------

\* C1: for a grammar is_ll1 certifies, once build_ll1_table has run, LL(1)
\* parse returns Accept for every string derivable from the start symbol.
C1_LL1AcceptsLanguage ==
  (LL1Returned /\ is_ll1_result /\ table_built # "none" /\ InLanguage)
    => output = "yes"

\* C2: for a grammar is_slr1 certifies, SLR(1) parse returns Accept for every
\* string of the language and Reject for every string outside it.
C2_SLR1DecidesLanguage ==
  (SLR1Returned /\ is_slr1_result) => (output = "yes" <=> InLanguage)

\* C3: if is_ll1 returns true then build_ll1_table returns success.
C3_ClassifyAgreesWithTable ==
  (is_ll1_result /\ table_built # "none") => table_built = "True"

\* C4: for a grammar is_ll1 certifies, LL(1) parse returns Reject for every
\* input that is not derivable from the start symbol.
C4_LL1RejectsNonLanguage ==
  (LL1Returned /\ is_ll1_result /\ ~InLanguage) => output = "no"

\* First of a right-hand side as C5 reads it: {epsilon} for the epsilon
\* production, the fold over the First sets otherwise
FirstOfRhs(production) ==
  IF production = <<epsilon>> THEN {epsilon}
  ELSE compute_first_of_string(first_sets, production)

DistinctAlts(nt) ==
  {c \in (DOMAIN DictGet(productions, nt)) \X (DOMAIN DictGet(productions, nt)) :
     c[1] < c[2]}

LL1ConditionBroken ==
  \E nt \in nonterminals : \E c \in DistinctAlts(nt) :
    LET alpha == FirstOfRhs(DictGet(productions, nt)[c[1]])
        beta  == FirstOfRhs(DictGet(productions, nt)[c[2]])
    IN \/ alpha \cap beta # {}
       \/ epsilon \in alpha /\ beta \cap follow_sets[nt] # {}
       \/ epsilon \in beta /\ alpha \cap follow_sets[nt] # {}

\* C5: is_ll1 returns false whenever two distinct productions of a nonterminal
\* A have intersecting First sets, or one has epsilon in its First set and the
\* First set of the other meets Follow(A).
C5_ConflictMakesNotLL1 ==
  (ll1_class # "none" /\ LL1ConditionBroken) => ~is_ll1_result

CommonFirstSymbol ==
  \E nt \in nonterminals : \E c \in DistinctAlts(nt) :
    DictGet(productions, nt)[c[1]][1] = DictGet(productions, nt)[c[2]][1]

\* C6: has_left_factoring returns true whenever two distinct productions of a
\* nonterminal share their first symbol, and is_ll1 then returns false at the
\* left-factoring check (a grammar without left recursion).
C6_CommonPrefixIsLeftFactoring ==
  (ll1_class # "none" /\ CommonFirstSymbol) =>
     /\ has_left_factoring(productions, nonterminals)
     /\ ~has_left_recursion(productions, nonterminals) => ll1_class = "left_factoring"

DirectlyLeftRecursive ==
  \E nt \in nonterminals : \E k \in DOMAIN DictGet(productions, nt) :
    DictGet(productions, nt)[k][1] = nt

\* C7: is_ll1 returns false through the left-recursion check whenever some
\* production has its own left nonterminal as first right-hand-side symbol.
C7_LeftRecursionFirst ==
  (ll1_class # "none" /\ DirectlyLeftRecursive) => ll1_class = "left_recursion"

\* a left-recursive grammar that the left-factoring check would reject too
C7_Witness ==
  /\ ll1_class = "left_recursion"
  /\ DirectlyLeftRecursive
  /\ has_left_factoring(productions, nonterminals)

\* an item C8 counts as complete: dot at the end, or an epsilon production
CompleteItem(item) ==
  item.dot = Len(item.production) \/ item.production = <<epsilon>>

ShiftOn(state, t) ==
  \E i \in DOMAIN state.items :
    LET item == state.items[i]
    IN ~CompleteItem(item) /\ item.dot < Len(item.production)
       /\ item.production[item.dot + 1] = t

ReducesOn(state, t) ==
  {i \in DOMAIN state.items :
     CompleteItem(state.items[i]) /\ t \in follow_sets[state.items[i].left]}

SLR1ConflictIn(state) ==
  \E t \in terminals :
    \/ ShiftOn(state, t) /\ ReducesOn(state, t) # {}
    \/ Cardinality(ReducesOn(state, t)) > 1

\* C8: is_slr1 returns true exactly when no state has a shift-reduce or a
\* reduce-reduce conflict on a terminal, an item of an epsilon production
\* counting as complete.
C8_SLR1IffNoConflict ==
  conflictos_encontrados # None =>
    (is_slr1_result <=> \A k \in DOMAIN slr1_states : ~SLR1ConflictIn(slr1_states[k]))

\* C9: the SLR(1) automaton construction leaves the productions map of the
\* driver as it was: no step of is_slr1 changes it.
C9_GrammarUnchangedBySLR1 ==
  [][(pc \in {"is_slr1", "build_slr1_states"}) => (productions' = productions)]_vars

\* C10: LL(1) parse of a grammar is_ll1 certifies returns on every input: its
\* stack stays within the height of a run that returns.
C10_LL1ParseReturns ==
  (pc = "ll1_parse" /\ is_ll1_result) =>
     Len(stack) <= ReturningStackHeight(productions, nonterminals, input_pos)

\* the orders in which the set self.terminals | self.nonterminals is enumerated
SymbolOrders == {Iterate(terminals \cup nonterminals, od) : od \in Seeds}

\* the automaton build_slr1_states has left in the parser
BuiltAutomaton ==
  [states |-> slr1_states, gotos |-> slr1_gotos, actions |-> slr1_actions]

ItemSet(state) == Range(state.items)

\* the id of the one state of b whose item set is that of state n of a
Relabel(a, b, n) ==
  LET hits == {m \in DOMAIN b.states : ItemSet(b.states[m]) = ItemSet(a.states[n + 1])}
  IN IF Cardinality(hits) = 1 THEN b.states[CHOOSE m \in hits : TRUE].id ELSE None

RelabelAction(a, b, action) ==
  IF action[1] = "s" THEN Shift(Relabel(a, b, action[2])) ELSE action

SameUpToNumbering(a, b) ==
  /\ Len(a.states) = Len(b.states)
  /\ \A k \in DOMAIN a.states : Relabel(a, b, k - 1) # None
  /\ \A k \in DOMAIN a.states : \A m \in DOMAIN a.states :
        Relabel(a, b, k - 1) = Relabel(a, b, m - 1) => k = m
  /\ DOMAIN b.gotos = {<<Relabel(a, b, key[1]), key[2]>> : key \in DOMAIN a.gotos}
  /\ \A key \in DOMAIN a.gotos :
        b.gotos[<<Relabel(a, b, key[1]), key[2]>>] = Relabel(a, b, a.gotos[key])
  /\ DOMAIN b.actions = {<<Relabel(a, b, key[1]), key[2]>> : key \in DOMAIN a.actions}
  /\ \A key \in DOMAIN a.actions :
        b.actions[<<Relabel(a, b, key[1]), key[2]>>] = RelabelAction(a, b, a.actions[key])

\* C11: build_slr1_states run again on the same grammar, under any enumeration
\* order of the symbol set, gives as many states and the same GOTO and ACTION
\* relations once the state ids are relabeled along equal item sets.  Stated
\* at the prompt: no command changes the automaton is_slr1 has built.
C11_SameAutomatonUpToNumbering ==
  pc = "menu" =>
    \A order \in SymbolOrders :
      SameUpToNumbering(BuiltAutomaton,
        build_slr1_states(order, productions, nonterminals, terminals, seed))

\* an order of the symbol set under which the states are numbered otherwise
C11_Witness ==
  /\ pc = "menu"
  /\ Len(slr1_states) >= 3
  /\ \E order \in SymbolOrders :
        build_slr1_states(order, productions, nonterminals, terminals, seed).gotos
          # slr1_gotos

\* the productions of the augmented grammar, as pairs <<left, production>>
ProductionsOf(prods) ==
  {<<prods[k].left, prods[k].alts[j]>> : <<k, j>> \in
     {c \in (DOMAIN prods) \X (1..Len(GrammarLines)) : c[2] <= Len(prods[c[1]].alts)}}

ItemsOf(states) == UNION {Range(states[k].items) : k \in DOMAIN states}

\* C12: production identifiers are unique: distinct productions of the
\* augmented grammar have distinct identifiers, get_production_by_id gives back
\* the production an identifier was made from, and the identifier an item
\* stores is the identifier of its production.
C12_ProductionIdsUnique ==
  pc = "menu" =>
    /\ \A p \in ProductionsOf(productions) : \A q \in ProductionsOf(productions) :
         get_production_id(seed, p[1], p[2]) = get_production_id(seed, q[1], q[2])
           => p = q
    /\ \A p \in ProductionsOf(productions) :
         get_production_by_id(productions, seed, get_production_id(seed, p[1], p[2])) = p
    /\ \A item \in ItemsOf(slr1_states) :
         item.production_id = get_production_id(seed, item.left, item.production)

\* |symbols| squared, symbols being the terminals and nonterminals read
PassBound ==
  Cardinality(terminals \cup nonterminals) * Cardinality(terminals \cup nonterminals)

\* C13: the loops of compute_first_sets and compute_follow_sets end, each
\* after at most |symbols| squared passes: while a loop runs, and when it has
\* ended, its pass counter is within that bound.
C13_PassesWithinBound ==
  pc \in {"first", "follow"} => iteration <= PassBound

\* a loop that has ended after more passes than the two every grammar needs
C13_Witness ==
  /\ pc \in {"first", "follow"}
  /\ ~changed
  /\ iteration >= 3

\* C14: during the loops of compute_first_sets and compute_follow_sets every
\* First set and every Follow set only grows: a step taken in either loop
\* leaves each set a superset of what it was.
C14_SetsOnlyGrow ==
  [][(pc \in {"first", "follow"}) =>
       (\A s \in SymbolUniverse : /\ first_sets[s] \subseteq first_sets'[s]
                                  /\ follow_sets[s] \subseteq follow_sets'[s])]_vars

\* a second or later pass of the Follow loop that has enlarged a set
C14_Witness ==
  /\ pc = "follow"
  /\ iteration >= 2
  /\ changed

\* C15: after compute_first_sets, First(t) is exactly {t} for every terminal t
\* of the grammar, the end marker included, and stays so through
\* compute_follow_sets, both analyzers and the parses.
C15_FirstOfTerminal ==
  pc \notin {"read", "first"} => \A t \in terminals : first_sets[t] = {t}

\* both analyzers and a parse have run on a grammar with the terminals a and $
C15_Witness ==
  /\ output \in {"yes", "no"}
  /\ terminals = {"a", end_marker}
  /\ first_sets["a"] = {"a"}
  /\ first_sets[end_marker] = {end_marker}

HasEpsilonProduction(nt) == <<epsilon>> \in Range(DictGet(productions, nt))

\* C16: after compute_first_sets, epsilon is in First(A) for every nonterminal
\* A that has an explicit epsilon production.
C16_EpsilonInFirst ==
  pc \notin {"read", "first"} =>
    \A nt \in nonterminals : HasEpsilonProduction(nt) => epsilon \in first_sets[nt]

\* compute_first_sets has returned on a grammar where A -> e is the only way
\* epsilon gets into a First set
C16_Witness ==
  /\ pc = "follow"
  /\ HasEpsilonProduction("A")
  /\ ~HasEpsilonProduction("S")
  /\ epsilon \in first_sets["A"]

\* C17: from the start of the loop of compute_follow_sets(start_symbol) on, at
\* every pass and after it, the end marker is in Follow(start_symbol).
C17_EndMarkerInFollowOfStart ==
  pc \notin {"read", "first"} => end_marker \in follow_sets[start_symbol]

\* the Follow loop has ended with more than the end marker in Follow(S)
C17_Witness ==
  /\ pc = "follow"
  /\ ~changed
  /\ follow_sets[start_symbol] = {end_marker, "a"}

\* ACTION(state, t) as SLR1Parser.parse reads it, <<>> for an empty cell
ActionAt(sid, t) ==
  IF <<sid, t>> \in DOMAIN slr1_actions THEN slr1_actions[<<sid, t>>] ELSE <<>>

\* C18: after SLR(1) analysis every state that contains the complete
\* augmented item S' -> S . has ACTION(state, $) = accept.
C18_AcceptActionPresent ==
  conflictos_encontrados # None =>
    \A k \in DOMAIN slr1_states :
      (\E item \in ItemSet(slr1_states[k]) :
         item.left = augmented_start /\ item.dot = Len(item.production))
      => ActionAt(slr1_states[k].id, end_marker) = Accept

\* C19: after SLR(1) analysis of a grammar is_slr1 finds free of conflicts,
\* every state with a complete item A -> alpha . has
\* ACTION(state, t) = reduce(identifier of A -> alpha) for every terminal t in
\* Follow(A).
C19_ReduceActionsPresent ==
  (conflictos_encontrados # None /\ is_slr1_result) =>
    \A k \in DOMAIN slr1_states : \A item \in ItemSet(slr1_states[k]) :
      (item.left # augmented_start /\ item.dot = Len(item.production)) =>
        \A t \in terminals \cap follow_sets[item.left] :
          ActionAt(slr1_states[k].id, t) = Reduce(item.production_id)

\* the cells C20 names: <<A, t, alpha>> for t in First(alpha) minus epsilon
\* and, when epsilon is in First(alpha), for t in Follow(A)
ExpectedCells ==
  UNION { LET alpha == DictGet(productions, nt)[k]
              first == FirstOfRhs(alpha)
          IN {<<nt, t, alpha>> : t \in (first \ {epsilon})
                \cup (IF epsilon \in first THEN follow_sets[nt] ELSE {})} :
          <<nt, k>> \in {c \in nonterminals \X (1..Len(GrammarLines)) :
                           c[2] <= Len(DictGet(productions, c[1]))} }

\* C20: when build_ll1_table succeeds, the table sends (A, t) to alpha for
\* every production A -> alpha and every t in First(alpha) minus epsilon and,
\* when epsilon is in First(alpha), as for A -> e, every t in Follow(A); no
\* other cell is filled.
C20_TableIsExact ==
  table_built = "True" =>
    /\ DOMAIN ll1_table = {<<c[1], c[2]>> : c \in ExpectedCells}
    /\ \A c \in ExpectedCells : ll1_table[<<c[1], c[2]>>] = c[3]

\* the run of build_ll1_table that left ll1_table and table_built
LastTableBuild ==
  build_ll1_table(productions, nonterminals, first_sets, follow_sets, seed)

\* C21: build_ll1_table reports a conflict on a cell (A, t) only if a different
\* production of A occupies the cell; the production the cell already holds
\* coming to it again is not a conflict.
C21_ConflictNeedsOtherProduction ==
  table_built = "False" =>
    ll1_table[LastTableBuild.conflict] # LastTableBuild.production

\* The First equations of C22, read on a map F of the nonterminals.
NullableIn(F, X) == X \in nonterminals /\ epsilon \in F[X]

FirstOfSymbolIn(F, X) ==
  IF X \in nonterminals THEN F[X] \ {epsilon}
  ELSE IF X \in terminals THEN {X} ELSE {}

FirstEquation(F, A) ==
  UNION { LET alpha == DictGet(productions, A)[k] IN
            IF alpha = <<epsilon>> THEN {epsilon}
            ELSE {t \in terminals :
                    \E i \in DOMAIN alpha :
                      /\ \A j \in 1..(i - 1) : NullableIn(F, alpha[j])
                      /\ t \in FirstOfSymbolIn(F, alpha[i])}
                 \cup (IF \A j \in DOMAIN alpha : NullableIn(F, alpha[j])
                       THEN {epsilon} ELSE {}) :
          k \in DOMAIN DictGet(productions, A) }

RECURSIVE LeastFirstFrom(_)
LeastFirstFrom(F) ==
  LET G == [A \in nonterminals |-> FirstEquation(F, A)]
  IN IF G = F THEN F ELSE LeastFirstFrom(G)

\* the least solution of the equations: iterated from the empty map, every
\* set recomputed from the map of the round before
LeastFirst == LeastFirstFrom([A \in nonterminals |-> {}])

\* C22: the map compute_first_sets returns solves the First equations (t in
\* First(A) iff some production of A has t in the First of a symbol behind a
\* nullable prefix, epsilon in First(A) iff some production of A is the
\* epsilon production or all nullable) and is their least solution.
C22_FirstIsLeastFixpoint ==
  pc \notin {"read", "first"} =>
    \A A \in nonterminals :
      /\ first_sets[A] = FirstEquation(first_sets, A)
      /\ first_sets[A] = LeastFirst[A]

\* First(S) comes from the symbol behind a nullable A only
C22_Witness ==
  /\ pc = "follow"
  /\ DictGet(productions, "S") = << <<"A", "a">> >>
  /\ DictGet(productions, "A") = << <<"e">> >>
  /\ first_sets["S"] = {"a"}
  /\ first_sets["A"] = {epsilon}

\* first_of_sequence(beta) on the First map, as C23 reads it
NullableSequence(beta) == \A j \in DOMAIN beta : epsilon \in first_sets[beta[j]]

FirstOfSequence(beta) ==
  {t \in SymbolUniverse \ {epsilon} :
     \E i \in DOMAIN beta :
       /\ NullableSequence(SubSeq(beta, 1, i - 1))
       /\ t \in first_sets[beta[i]]}
  \cup (IF NullableSequence(beta) THEN {epsilon} ELSE {})

\* the occurrences of B: <<A, alpha, i>> with alpha a production of A, alpha[i] = B
OccurrencesOf(B) ==
  {o \in {<<p[1], p[2], i>> : p \in ProductionsOf(productions), i \in 1..MaxRhsLen(productions)} :
     /\ o[1] \in nonterminals
     /\ o[3] <= Len(o[2])
     /\ o[2][o[3]] = B}

FollowEquation(F, B) ==
  (IF B = start_symbol THEN {end_marker} ELSE {})
  \cup UNION { LET beta == SubSeq(o[2], o[3] + 1, Len(o[2])) IN
                 (FirstOfSequence(beta) \ {epsilon})
                 \cup (IF NullableSequence(beta) THEN F[o[1]] ELSE {}) :
               o \in OccurrencesOf(B) }

RECURSIVE LeastFollowFrom(_)
LeastFollowFrom(F) ==
  LET G == [B \in nonterminals |-> FollowEquation(F, B)]
  IN IF G = F THEN F ELSE LeastFollowFrom(G)

LeastFollow == LeastFollowFrom([B \in nonterminals |-> {}])

\* C23: the map compute_follow_sets returns is the least one with $ in
\* Follow(start) and, for every occurrence A -> alpha B beta, with
\* first_of_sequence(beta) minus epsilon in Follow(B) and, beta empty or
\* nullable, Follow(A) in Follow(B); no Follow set contains epsilon.
C23_FollowIsLeastFixpoint ==
  pc \notin {"read", "first", "follow"} =>
    /\ \A B \in nonterminals :
         /\ follow_sets[B] = FollowEquation(follow_sets, B)
         /\ follow_sets[B] = LeastFollow[B]
    /\ \A s \in SymbolUniverse : epsilon \notin follow_sets[s]

\* Follow(A) holds what Follow(S) gives it through S -> A and what follows A
\* in S -> A a
C23_Witness ==
  /\ pc = "is_slr1"
  /\ DictGet(productions, "S") = << <<"A", "a">>, <<"A">> >>
  /\ follow_sets["A"] = {"a", end_marker}

\* closure and goto of LR(0) item sets, by their definitions on sets of items
NextSymbol(item) ==
  IF item.dot < Len(item.production) THEN item.production[item.dot + 1] ELSE ""

RECURSIVE ClosureOfSet(_)
ClosureOfSet(I) ==
  LET added == {Item(p[1], p[2], 0, get_production_id(seed, p[1], p[2])) :
                  p \in {q \in ProductionsOf(productions) :
                           /\ q[1] \in nonterminals
                           /\ \E item \in I : NextSymbol(item) = q[1]}}
  IN IF added \subseteq I THEN I ELSE ClosureOfSet(I \cup added)

GotoOfSet(I, X) ==
  ClosureOfSet({Item(item.left, item.production, item.dot + 1, item.production_id) :
                  item \in {it \in I : NextSymbol(it) = X}})

StateIds == {slr1_states[k].id : k \in DOMAIN slr1_states}

BuildCompleted ==
  pc \in {"build_slr1_states", "menu"} /\ state_id >= Len(slr1_states)

\* C24: when build_slr1_states completes, for every state s and grammar symbol
\* X, GOTO(s, X) is defined iff goto(items(s), X) is not empty, the state it
\* names then has goto(items(s), X) as item set, ACTION(s, X) is
\* shift(GOTO(s, X)) exactly when X is a terminal too, and every target is the
\* id of a state.
C24_GotoAndShiftMatchItemSets ==
  BuildCompleted =>
    \A k \in DOMAIN slr1_states : \A X \in terminals \cup nonterminals :
      LET s      == slr1_states[k].id
          target == GotoOfSet(ItemSet(slr1_states[k]), X)
      IN /\ <<s, X>> \in DOMAIN slr1_gotos <=> target # {}
         /\ <<s, X>> \in DOMAIN slr1_gotos =>
              /\ slr1_gotos[<<s, X>>] \in StateIds
              /\ ItemSet(slr1_states[slr1_gotos[<<s, X>>] + 1]) = target
         /\ <<s, X>> \in DOMAIN slr1_actions <=> (target # {} /\ X \in terminals)
         /\ <<s, X>> \in DOMAIN slr1_actions =>
              slr1_actions[<<s, X>>] = Shift(slr1_gotos[<<s, X>>])

\* a completed automaton with a transition from a state to itself
C24_Witness ==
  /\ BuildCompleted
  /\ Len(slr1_states) >= 4
  /\ \E key \in DOMAIN slr1_gotos : slr1_gotos[key] = key[1]

\* state 0 has been closed: the first iteration of the loop is over
StateZeroClosed ==
  \/ pc = "build_slr1_states" /\ state_id >= 1
  \/ pc \notin {"read", "first", "follow", "is_slr1", "build_slr1_states"}

\* C25: at every step of build_slr1_states after state 0 has been closed, no
\* two distinct states have the same item set, each state's id is its index in
\* the state list, and state 0 is the closure of the item S' -> . S.
C25_StatesAreDistinct ==
  StateZeroClosed =>
    /\ \A k \in DOMAIN slr1_states : \A m \in DOMAIN slr1_states :
         ItemSet(slr1_states[k]) = ItemSet(slr1_states[m]) => k = m
    /\ \A k \in DOMAIN slr1_states : slr1_states[k].id = k - 1
    /\ ItemSet(slr1_states[1]) = ClosureOfSet(Range(initial_state.items))

\* in the middle of the construction, a transition has found an earlier state
C25_Witness ==
  /\ pc = "build_slr1_states"
  /\ state_id >= 1
  /\ state_id < Len(slr1_states)
  /\ \E key \in DOMAIN slr1_gotos : slr1_gotos[key] <= key[1]

\* ------------------------------------------------------------------------
\* SLR1Parser.parse on an ACTION relation that holds reduce and accept entries.
\* The analyser stores shifts only; the entries added here are those of the
\* table-filling step of the design (reduce(production id) on Follow(A) for a
\* complete item of A, accept on the end marker for S' -> S .), for automata
\* without conflicts, where no cell is claimed twice.
\* ------------------------------------------------------------------------
ReduceCells(states, fo) ==
  {<<states[k].id, t, item>> : <<k, t, item>> \in
     {c \in (DOMAIN states) \X (SymbolUniverse \ {epsilon}) \X ItemsOf(states) :
        /\ c[3] \in ItemSet(states[c[1]])
        /\ CompleteItem(c[3])
        /\ \/ c[3].left # augmented_start /\ c[2] \in fo[c[3].left]
           \/ c[3].left = augmented_start /\ c[2] = end_marker}}

fill_reduce_actions(states, actions, fo) ==
  LET cells == ReduceCells(states, fo)
      keys  == (DOMAIN actions) \cup {<<c[1], c[2]>> : c \in cells}
  IN [key \in keys |->
        IF key \in DOMAIN actions THEN actions[key]
        ELSE LET c == CHOOSE d \in cells : d[1] = key[1] /\ d[2] = key[2]
             IN IF c[3].left = augmented_start THEN Accept
                ELSE Reduce(c[3].production_id)]

\* the relation is completed once, right after is_slr1 has returned True
FillReduceActions ==
  /\ pc = "menu"
  /\ is_slr1_result
  /\ \A k \in DOMAIN slr1_states : ~SLR1ConflictIn(slr1_states[k])
  /\ table_built = "none"
  /\ output = "none"
  /\ slr1_actions' = fill_reduce_actions(slr1_states, slr1_actions, follow_sets)
  /\ slr1_actions' # slr1_actions
  /\ UNCHANGED <<pc, grammar_vars, ff_vars, slr1_states, slr1_gotos, state_id,
                 conflictos_encontrados, ll1_vars, parse_vars>>

ReduceNext ==
  \/ Next
  \/ FillReduceActions

ReduceSpec == Init /\ [][ReduceNext]_vars

\* the production the action consulted by the next step of parse reduces by,
\* <<>> when that action is not a reduce
ReducedProduction ==
  LET key == <<stack[Len(stack)], CurrentInput(input_string, input_pos)>>
  IN IF pc = "slr1_parse" /\ key \in DOMAIN slr1_actions
        /\ slr1_actions[key][1] = "r"
     THEN get_production_by_id(productions, seed, slr1_actions[key][2])
     ELSE <<>>

SymbolCount(alpha) == IF alpha = <<epsilon>> THEN 0 ELSE Len(alpha)

\* C26: on a reduce action for A -> alpha, SLR(1) parse pops as many stack
\* entries as alpha has symbols, none for an epsilon production, pushes
\* GOTO(new top, A) and leaves the cursor where it is; it returns Reject when
\* that GOTO entry is absent.
C26_ReducePopsSymbolCount ==
  [][(ReducedProduction # <<>>
        /\ SymbolCount(ReducedProduction[2]) < Len(stack)) =>
     (LET popped == SubSeq(stack, 1, Len(stack) - SymbolCount(ReducedProduction[2]))
          gkey   == <<popped[Len(popped)], ReducedProduction[1]>>
      IN IF gkey \in DOMAIN slr1_gotos
         THEN /\ stack' = Append(popped, slr1_gotos[gkey])
              /\ input_pos' = input_pos
              /\ pc' = "slr1_parse"
         ELSE /\ output' = "no"
              /\ pc' = "parse_strings_slr1")]_vars

\* what LL(1) analysis and LL(1) parse compute from the shared grammar and
\* First/Follow maps: the verdict, the table, and the terminals parse reads
LL1Results ==
  <<is_ll1(productions, nonterminals, first_sets, follow_sets),
    build_ll1_table(productions, nonterminals, first_sets, follow_sets, seed),
    terminals>>

\* what is_slr1 returns on the shared grammar and Follow map
SLR1Verdict ==
  LET a == build_slr1_states(Iterate(terminals \cup nonterminals, seed),
             DictSet(productions, augmented_start, <<(<<start_symbol>>)>>),
             nonterminals, terminals, seed)
  IN count_conflicts(a.states, a.actions, nonterminals, terminals, follow_sets) = 0

\* what the two analyzers share: the grammar and the First/Follow maps
SharedData ==
  <<productions, nonterminals, terminals, first_sets, follow_sets, seed>>

\* a step of SLR(1) analysis; a step of LL(1) analysis or LL(1) parse
SLR1AnalysisStep == pc \in {"is_slr1", "build_slr1_states"}

LL1Step ==
  \/ ll1_class' # ll1_class
  \/ table_built' # table_built
  \/ ll1_table' # ll1_table
  \/ pc \in {"parse_strings_ll1", "ll1_parse"}

TriedCells ==
  CellsOfGrammar(productions, first_sets, follow_sets, seed,
                 Iterate(nonterminals, seed), 1)

KeyCameBefore(cells, k) == \E j \in 1..(k - 1) : cells[j].key = cells[k].key

FirstRepeatedKey(cells) ==
  CHOOSE k \in DOMAIN cells :
    KeyCameBefore(cells, k) /\ \A m \in 1..(k - 1) : ~KeyCameBefore(cells, m)

\* C28: build_ll1_table stops at the first conflict it meets and fills no
\* further cell, and the cell it reports for a grammar is the same whatever
\* the enumeration order of the sets of nonterminals and terminals.
C28_ConflictCellSameOnEveryRun ==
  table_built = "False" =>
    /\ DOMAIN ll1_table =
         {TriedCells[j].key : j \in 1..(FirstRepeatedKey(TriedCells) - 1)}
    /\ \A od \in Seeds :
         build_ll1_table(productions, nonterminals, first_sets, follow_sets,
                         od).conflict = LastTableBuild.conflict

\* The symbol sequences the two copies of the helper are compared on.
SequencesOf(symbols, n) == UNION { [1..m -> symbols] : m \in 0..n }

HelperSequences ==
  SequencesOf(nonterminals \cup terminals \cup {epsilon}, MaxRhsLen(productions))

\* C29: once compute_first_sets has returned, First(A) is the union of the
\* helper's results on the right-hand sides of the productions of A, the
\* right-hand side of an epsilon production giving {epsilon}; and the copy of
\* the helper in the First/Follow engine and the one in the LL(1) analyzer
\* return the same set on every sequence.
C29_HelperAgreesWithFirst ==
  pc \notin {"read", "first"} =>
    /\ \A A \in nonterminals :
         first_sets[A] =
           UNION { ff_compute_first_of_string(first_sets, DictGet(productions, A)[k]) :
                     k \in DOMAIN DictGet(productions, A) }
    /\ \A A \in nonterminals : \A k \in DOMAIN DictGet(productions, A) :
         DictGet(productions, A)[k] = <<epsilon>> =>
           ff_compute_first_of_string(first_sets, <<epsilon>>) = {epsilon}
    /\ \A symbols \in HelperSequences :
         ff_compute_first_of_string(first_sets, symbols)
           = compute_first_of_string(first_sets, symbols)

\* C30: in the command loop a parser's parse runs only if its classification
\* returned True, the LL(1) parse only after the build_ll1_table of the same
\* selection returned True; a command for a parser whose classification was
\* False only reports that the parser cannot be used.
C30_ParseOnlyWhenAvailable ==
  /\ pc = "ll1_parse" => is_ll1_result /\ table_built = "True"
  /\ pc = "slr1_parse" => is_slr1_result
  /\ output = "No es posible usar LL(1) parser." =>
       ~is_ll1_result /\ table_built = "none" /\ pc \in {"menu", "quit"}
  /\ output = "No es posible usar SLR(1) parser." =>
       ~is_slr1_result /\ pc \in {"menu", "quit"}
====
